---- MODULE Spec2Model ----
(***************************************************************************)
(* A model of the bmps repository:                                         *)
(*   - the future-candle order simulator and the label (re)generation of   *)
(*     src/fix_labels.py (simulate_order, get_candles_around_timestamp,    *)
(*     generate_correct_labels, fix_training_file);                        *)
(*   - the inference pipeline of src/py-bmps/src/predictor.py;             *)
(*   - the HTTP handlers of src/py-bmps/api.py.                            *)
(*                                                                         *)
(* Prices are integers in hundredths of a point, so the default tick_size  *)
(* of 0.25 is 25.  Probabilities and thresholds are integers in hundredths *)
(* (0.6 is 60).  A label 0.0 / 1.0 is the integer 0 / 1.  A Python value   *)
(* None is the empty tuple and an Optional value x that is present is the  *)
(* tuple <<x>>; the outcome of a call that may raise is a record with the  *)
(* exception's name in exc ("" when it returned).                          *)
(***************************************************************************)
EXTENDS Integers, Sequences, FiniteSets, TLC

VARIABLES
    pc,                 \* position of the running script / function
    sim_order,          \* simulate_order: argument order
    sim_candles,        \* simulate_order: argument future_candles
    sim_result,         \* simulate_order: returned value
    af_df,              \* add_features: the rows (high, low, close, atr) of df
    long_targets,       \* add_features: the array long_targets
    short_targets,      \* add_features: the array short_targets
    candle_df,          \* the candle table (rows in table order)
    entry_timestamp,    \* generate_correct_labels: argument entry_timestamp
    future_candles,     \* generate_correct_labels: local future_candles
    entry_price,        \* generate_correct_labels: local entry_price
    simulation_candles, \* generate_correct_labels: local simulation_candles
    labels,             \* generate_correct_labels: returned list
    file,               \* the training file on disk: rows [timestamp, label_vector]
    df,                 \* fix_training_file: the in-memory data frame
    idx,                \* fix_training_file: number of rows processed so far
    stats,              \* fix_training_file: the statistics dictionary
    dry_run,            \* fix_training_file: argument dry_run
    writes,             \* number of df.to_parquet calls made on the training file
    model_probs,        \* the loaded model: the probability row it gives the sample
    default_threshold,  \* BMPSPredictor.default_threshold (from the configuration)
    top_n_setups,       \* BMPSPredictor.top_n_setups (from the configuration)
    p_features,         \* predictor call: argument features
    p_threshold,        \* predictor call: argument threshold
    p_top_n,            \* predictor call: argument top_n
    p_result,           \* predictor call: its outcome
    server,             \* the application: created, serving, or failed at startup
    predictor,          \* api.py: the global predictor (None until loaded)
    request,            \* the last request routed
    response            \* the response it got

labelVars == <<candle_df, entry_timestamp, future_candles, entry_price,
               simulation_candles, labels>>
simVars == <<sim_order, sim_candles, sim_result, af_df, long_targets, short_targets>>
fixVars == <<file, df, idx, stats, dry_run, writes>>
modelVars == <<model_probs, default_threshold, top_n_setups>>
predVars == <<p_features, p_threshold, p_top_n, p_result>>
apiVars == <<server, predictor, request, response>>
vars == <<pc, simVars, labelVars, fixVars, modelVars, predVars, apiVars>>

\* Python None, and a value that is present where None is possible
None == <<>>
Some(x) == <<x>>

(***************************************************************************)
(* Bounds of the model.                                                    *)
(***************************************************************************)
MaxSimCandles == 3   \* longest candle list handed to simulate_order directly
MaxPad == 20         \* length of the run of quiet candles in a long table
MaxShort == 2        \* most candles in a short table
MaxEntryTs == 3      \* largest entry timestamp tried
MaxFixCandles == 2   \* most candles in a table given to fix_training_file
MaxRows == 2         \* most rows in a training file
NSetups == 3         \* number of setups the model scores
MaxTopN == 3         \* largest top_n tried
MaxBatch == 2        \* most feature arrays in a batch request
MaxTargetRows == 3   \* most rows in a table given to add_features

(***************************************************************************)
(* Program constants.                                                      *)
(***************************************************************************)
TickSize == 25       \* Order.tick_size = 0.25, in hundredths
LagCandles == 20     \* lag_candles default
MinStopLoss == 4     \* range(4, 101)
MaxStopLoss == 100   \* range(4, 101)
NLabels == 194       \* [0.0] * 194
NFeatures == 69      \* PredictionRequest.features: min_length = max_length = 69
Horizon == 120       \* add_features: horizon

Min(a, b) == IF a < b THEN a ELSE b

(***************************************************************************)
(* class Order: the two price properties.                                  *)
(***************************************************************************)
Order(type, price, sl, pt) ==
    [order_type |-> type, entry_price |-> price,
     stop_loss_ticks |-> sl, profit_target_ticks |-> pt, tick_size |-> TickSize]

stop_loss_price(order) ==
    IF order.order_type = "Long"
    THEN order.entry_price - (order.stop_loss_ticks * order.tick_size)
    ELSE order.entry_price + (order.stop_loss_ticks * order.tick_size)

profit_target_price(order) ==
    IF order.order_type = "Long"
    THEN order.entry_price + (order.profit_target_ticks * order.tick_size)
    ELSE order.entry_price - (order.profit_target_ticks * order.tick_size)

(***************************************************************************)
(* simulate_order: the forward scan, with its early returns.               *)
(***************************************************************************)
RECURSIVE simulate_order_target_first(_, _)
simulate_order_target_first(order, candles) ==
    IF candles = <<>> THEN FALSE
    ELSE LET candle == Head(candles) IN
         IF order.order_type = "Long"
         THEN IF candle.high >= profit_target_price(order) THEN TRUE
              ELSE IF candle.low <= stop_loss_price(order) THEN FALSE
              ELSE simulate_order_target_first(order, Tail(candles))
         ELSE IF candle.low <= profit_target_price(order) THEN TRUE
              ELSE IF candle.high >= stop_loss_price(order) THEN FALSE
              ELSE simulate_order_target_first(order, Tail(candles))

RECURSIVE simulate_order(_, _)
simulate_order(order, candles) ==
    IF candles = <<>> THEN FALSE
    ELSE LET candle == Head(candles) IN
         IF order.order_type = "Long"
         THEN IF candle.low <= stop_loss_price(order) THEN FALSE
              ELSE IF candle.high >= profit_target_price(order) THEN TRUE
              ELSE simulate_order(order, Tail(candles))
         ELSE IF candle.high >= stop_loss_price(order) THEN FALSE
              ELSE IF candle.low <= profit_target_price(order) THEN TRUE
              ELSE simulate_order(order, Tail(candles))

(***************************************************************************)
(* Candles.  A candle keeps the fields the scripts read: timestamp, high,  *)
(* low, close (open and volume are copied and never read).  The shapes are *)
(* given in ticks around 1000.00; Near misses the 8-tick levels by 0.01.   *)
(***************************************************************************)
Shape(hi, lo, cl) ==
    [high |-> 100000 + hi, low |-> 100000 + lo, close |-> 100000 + cl]

Flat == Shape(1 * TickSize, -1 * TickSize, 0)
Shapes ==
    { Flat,
      Shape(8 * TickSize, -2 * TickSize, 0),
      Shape(2 * TickSize, -8 * TickSize, 0),
      Shape(250 * TickSize, -250 * TickSize, 0),
      Shape(210 * TickSize, -1 * TickSize, 200 * TickSize),
      Shape(8 * TickSize - 1, -8 * TickSize + 1, 0) }

SeqsUpTo(S, n) == UNION { [1..k -> S] : k \in 0..n }

\* give the k-th row of a table the timestamp k
Stamp(shapes) ==
    [k \in 1..Len(shapes) |->
        [timestamp |-> k, high |-> shapes[k].high, low |-> shapes[k].low,
         close |-> shapes[k].close]]

(***************************************************************************)
(* simulate_order on its own: every order and candle list of the bounds.   *)
(***************************************************************************)
SimOrders ==
    { Order(t, 100000, sl, pt) : t \in {"Long", "Short"}, sl \in {4, 8}, pt \in {4, 8} }

\* the variables a specification does not use rest at these values
ListArg(n) == [kind |-> "list", ndim |-> 0, rows |-> 0, n |-> n]

NoResult == [exc |-> "", value |-> None]

PredIdle ==
    /\ p_features = ListArg(0)
    /\ p_threshold = None
    /\ p_top_n = None
    /\ p_result = NoResult

ModelIdle ==
    /\ model_probs = <<>>
    /\ default_threshold = 0
    /\ top_n_setups = 0

Request(endpoint, features, batch, threshold, top_k) ==
    [endpoint |-> endpoint, features |-> features, features_batch |-> batch,
     threshold |-> threshold, top_k |-> top_k]

Response(endpoint, status, detail, body, called) ==
    [endpoint |-> endpoint, status |-> status, detail |-> detail, body |-> body,
     predictor_called |-> called]

NoRequest == Request("", ListArg(0), <<>>, 0, 0)

NoResponse == Response("", 0, "", None, FALSE)

ApiIdle ==
    /\ server = "created"
    /\ predictor = None
    /\ request = NoRequest
    /\ response = NoResponse

LabelIdle ==
    /\ candle_df = <<>>
    /\ entry_timestamp = 0
    /\ future_candles = <<>>
    /\ entry_price = None
    /\ simulation_candles = <<>>
    /\ labels = <<>>

TargetsIdle ==
    /\ af_df = <<>>
    /\ long_targets = <<>>
    /\ short_targets = <<>>

SimIdle ==
    /\ sim_order = None
    /\ sim_candles = <<>>
    /\ sim_result = None
    /\ TargetsIdle

FixIdle ==
    /\ file = <<>>
    /\ df = <<>>
    /\ idx = 0
    /\ stats = None
    /\ dry_run = FALSE
    /\ writes = 0

SimInit ==
    /\ pc = "call"
    /\ sim_order \in SimOrders
    /\ sim_candles \in { Stamp(s) : s \in SeqsUpTo(Shapes, MaxSimCandles) }
    /\ sim_result = None
    /\ TargetsIdle
    /\ LabelIdle
    /\ FixIdle
    /\ ModelIdle
    /\ PredIdle
    /\ ApiIdle

Simulate ==
    /\ pc = "call"
    /\ sim_result' = simulate_order(sim_order, sim_candles)
    /\ pc' = "returned"
    /\ UNCHANGED <<sim_order, sim_candles, af_df, long_targets, short_targets, labelVars,
                   fixVars, modelVars, predVars, apiVars>>

SimNext == Simulate

SpecSim == SimInit /\ [][SimNext]_vars

TouchesStop(order, candle) ==
    IF order.order_type = "Long"
    THEN candle.low <= stop_loss_price(order)
    ELSE candle.high >= stop_loss_price(order)

TouchesTarget(order, candle) ==
    IF order.order_type = "Long"
    THEN candle.high >= profit_target_price(order)
    ELSE candle.low <= profit_target_price(order)

\* some candle touches the target while it and every earlier one misses the stop
TargetBeforeStop(order, candles) ==
    \E i \in 1..Len(candles) :
        /\ TouchesTarget(order, candles[i])
        /\ \A j \in 1..i : ~TouchesStop(order, candles[j])

(***************************************************************************)
(* C1: simulate_order returns True if and only if some candle touches the  *)
(* profit target while neither it nor any earlier candle touches the stop  *)
(* loss; in every other case (empty list, expiry, stop first) it returns   *)
(* False.                                                                  *)
(***************************************************************************)
C1_SimulateOrder ==
    pc = "returned" =>
        /\ sim_result \in BOOLEAN
        /\ sim_result = TargetBeforeStop(sim_order, sim_candles)

C1_Witness ==
    /\ pc = "returned"
    /\ Len(sim_candles) >= 2
    /\ ~TouchesTarget(sim_order, sim_candles[1])
    /\ sim_result = TRUE

(***************************************************************************)
(* get_candles_around_timestamp: the rows after the timestamp, in table    *)
(* order, cut to the first lag_candles.                                    *)
(***************************************************************************)
get_candles_from_timestamp(table, timestamp, lag_candles) ==
    LET future_candles_df == SelectSeq(table, LAMBDA row : row.timestamp >= timestamp)
    IN  SubSeq(future_candles_df, 1, Min(lag_candles, Len(future_candles_df)))

get_candles_around_timestamp(table, timestamp, lag_candles) ==
    LET future_candles_df == SelectSeq(table, LAMBDA row : row.timestamp > timestamp)
    IN  SubSeq(future_candles_df, 1, Min(lag_candles, Len(future_candles_df)))

(***************************************************************************)
(* generate_correct_labels.  StopLossTicks is list(range(4, 101)),         *)
(* OrderTypes is ["Long", "Short"]; the outer loop runs over the stop      *)
(* losses, the inner one over the order types, each appending one label.   *)
(***************************************************************************)
StopLossTicksShort == [k \in 1..(MaxStopLoss - MinStopLoss) |-> MinStopLoss + k - 1]

StopLossTicks == [k \in 1..(MaxStopLoss - MinStopLoss + 1) |-> MinStopLoss + k - 1]

OrderTypes == <<"Long", "Short">>

Label(order_type, price, stop_loss, candles) ==
    LET profit_target == stop_loss * 2
        order == Order(order_type, price, stop_loss, profit_target)
        is_winner == simulate_order(order, candles)
    IN  IF is_winner THEN 1 ELSE 0

\* the inner loop for one stop loss: one label per order type, in order
InnerLoop(price, candles, stop_loss) ==
    [t \in 1..Len(OrderTypes) |-> Label(OrderTypes[t], price, stop_loss, candles)]

\* the labels appended for StopLossTicks[lo..hi], in loop order (the range
\* is halved so that the evaluation stays shallow)
RECURSIVE OuterLoop(_, _, _, _)
OuterLoop(price, candles, lo, hi) ==
    IF lo > hi THEN <<>>
    ELSE IF lo = hi THEN InnerLoop(price, candles, StopLossTicks[lo])
    ELSE LET mid == (lo + hi) \div 2
         IN  OuterLoop(price, candles, lo, mid) \o OuterLoop(price, candles, mid + 1, hi)

\* the loops nested the other way round: order types outside, stop losses inside
LabelLoopTypesOuter(price, candles) ==
    [k \in 1..Len(StopLossTicks) |-> Label(OrderTypes[1], price, StopLossTicks[k], candles)]
    \o [k \in 1..Len(StopLossTicks) |-> Label(OrderTypes[2], price, StopLossTicks[k], candles)]

LabelLoop(price, candles) == OuterLoop(price, candles, 1, Len(StopLossTicks))

SimulationCandlesWithEntry(future) == future

\* future_candles[1:]
SimulationCandles(future) == Tail(future)

\* the locals and the returned list of one call
generate_correct_labels(timestamp, table) ==
    LET future == get_candles_around_timestamp(table, timestamp, LagCandles)
    IN  IF future = <<>>
        THEN [future_candles |-> future, entry_price |-> None,
              simulation_candles |-> <<>>, labels |-> [i \in 1..NLabels |-> 0]]
        ELSE LET entry_candle == future[1]
                 price == entry_candle.close
                 sim == SimulationCandles(future)
             IN  [future_candles |-> future, entry_price |-> price,
                  simulation_candles |-> sim, labels |-> LabelLoop(price, sim)]

(***************************************************************************)
(* generate_correct_labels on its own: candle tables sorted by timestamp   *)
(* (main sorts the table).  The short tables hold up to MaxShort shaped    *)
(* candles; the long ones a run of MaxPad quiet candles, then up to one    *)
(* shaped candle and up to one more quiet one, so that tables with no,     *)
(* one, fewer than, exactly and more than lag_candles later candles all    *)
(* occur.                                                                  *)
(***************************************************************************)
ShortTables == { Stamp(s) : s \in SeqsUpTo(Shapes, MaxShort) }

LongTables ==
    { Stamp([k \in 1..MaxPad |-> Flat] \o tail \o rest) :
        tail \in SeqsUpTo(Shapes, 1), rest \in SeqsUpTo({Flat}, 1) }

Tables == ShortTables \cup LongTables

LabelInit ==
    /\ pc = "call"
    /\ candle_df \in Tables
    /\ entry_timestamp \in 0..MaxEntryTs
    /\ future_candles = <<>>
    /\ entry_price = None
    /\ simulation_candles = <<>>
    /\ labels = <<>>
    /\ SimIdle
    /\ FixIdle
    /\ ModelIdle
    /\ PredIdle
    /\ ApiIdle

GenerateLabels ==
    /\ pc = "call"
    /\ LET r == generate_correct_labels(entry_timestamp, candle_df)
       IN  /\ future_candles' = r.future_candles
           /\ entry_price' = r.entry_price
           /\ simulation_candles' = r.simulation_candles
           /\ labels' = r.labels
    /\ pc' = "returned"
    /\ UNCHANGED <<candle_df, entry_timestamp, simVars, fixVars, modelVars, predVars, apiVars>>

LabelNext == GenerateLabels

SpecLabels == LabelInit /\ [][LabelNext]_vars

(***************************************************************************)
(* api.py: the decoding of a setup index into (order_type, tick) and into  *)
(* the setup_name f"{order_type}_{tick}", as the handlers repeat it.       *)
(***************************************************************************)
ApiStopLossTicks == [k \in 1..(101 - 4) |-> 4 + k - 1]

ApiOrderTypes == <<"Long", "Short">>

Digits == <<"0", "1", "2", "3", "4", "5", "6", "7", "8", "9">>

\* str(n) of a non-negative integer
RECURSIVE IntToStr(_)
IntToStr(n) ==
    IF n < 10 THEN Digits[n + 1] ELSE IntToStr(n \div 10) \o Digits[(n % 10) + 1]

SetupDecodeTypeMajor(setup) ==
    LET tick_index == setup % Len(ApiStopLossTicks)
        order_type_index == setup \div Len(ApiStopLossTicks)
    IN  IF tick_index < Len(ApiStopLossTicks)
        THEN [in_range |-> TRUE, order_type |-> ApiOrderTypes[order_type_index + 1],
              tick |-> ApiStopLossTicks[tick_index + 1]]
        ELSE [in_range |-> FALSE, order_type |-> None, tick |-> None]

\* tick_index, order_type_index and the list lookups guarded by the length check
SetupDecode(setup) ==
    LET tick_index == setup \div 2
        order_type_index == setup % 2
    IN  IF tick_index < Len(ApiStopLossTicks)
        THEN [in_range |-> TRUE, order_type |-> ApiOrderTypes[order_type_index + 1],
              tick |-> ApiStopLossTicks[tick_index + 1]]
        ELSE [in_range |-> FALSE, order_type |-> None, tick |-> None]

\* setup_name as /predict and /predict/batch compute it (None when out of range)
SetupName(setup) ==
    LET d == SetupDecode(setup)
    IN  IF d.in_range THEN Some(d.order_type \o "_" \o IntToStr(d.tick)) ELSE None

(***************************************************************************)
(* Claims about generate_correct_labels.                                   *)
(***************************************************************************)
\* positions of the table rows later than the entry timestamp
Later == { p \in 1..Len(candle_df) : candle_df[p].timestamp > entry_timestamp }

ZeroLabels == [i \in 1..194 |-> 0]

(***************************************************************************)
(* C2: generate_correct_labels uses only candles whose timestamp is        *)
(* strictly greater than the entry timestamp, at most 20 of them, the      *)
(* first ones in table order; the entry price is the close of the first,   *)
(* and the orders are simulated over the candles after the first only (at  *)
(* most 19), so never against the entry candle or an earlier one.          *)
(***************************************************************************)
C2_FutureCandlesOnly ==
    pc = "returned" =>
        /\ Len(future_candles) = Min(20, Cardinality(Later))
        /\ \A j \in 1..Len(future_candles) :
              \E p \in Later :
                 /\ candle_df[p] = future_candles[j]
                 /\ Cardinality({ q \in Later : q <= p }) = j
        /\ \A j \in 1..Len(future_candles) :
              future_candles[j].timestamp > entry_timestamp
        /\ future_candles # <<>> =>
              /\ entry_price = future_candles[1].close
              /\ Len(simulation_candles) = Len(future_candles) - 1
              /\ Len(simulation_candles) <= 19
              /\ \A j \in 1..Len(simulation_candles) :
                    /\ simulation_candles[j] = future_candles[j + 1]
                    /\ simulation_candles[j].timestamp > future_candles[1].timestamp
              /\ \A i \in 1..Len(labels) :
                    labels[i] = 1 =>
                       \E c \in 1..Len(simulation_candles) :
                          LET order == Order(OrderTypes[((i - 1) % 2) + 1], entry_price,
                                             StopLossTicks[((i - 1) \div 2) + 1],
                                             2 * StopLossTicks[((i - 1) \div 2) + 1])
                          IN  TouchesTarget(order, simulation_candles[c])

C2_Witness ==
    /\ pc = "returned"
    /\ Cardinality(Later) > 20
    /\ entry_timestamp >= 1
    /\ Len(simulation_candles) = 19
    /\ \E i \in 1..Len(labels) : labels[i] = 1

(***************************************************************************)
(* C3: generate_correct_labels returns exactly 194 values (97 stop-loss    *)
(* distances times 2 order types), each of them 0.0 or 1.0.                *)
(***************************************************************************)
C3_LabelVectorShape ==
    pc = "returned" =>
        /\ Len(labels) = 194
        /\ Len(labels) = 97 * 2
        /\ \A i \in 1..Len(labels) : labels[i] \in {0, 1}

C3_Witness ==
    /\ pc = "returned"
    /\ \E i, j \in 1..Len(labels) : labels[i] = 1 /\ labels[j] = 0

(***************************************************************************)
(* C4: the label at position i (0 <= i <= 193) is the outcome of the order *)
(* with stop loss 4 + (i div 2) ticks, profit target twice the stop loss,  *)
(* Long when i is even and Short when i is odd; the API decodes a setup    *)
(* index with the same mapping (Long_4 = 0, Short_4 = 1, Long_5 = 2,       *)
(* Short_5 = 3, ..., Short_100 = 193).                                     *)
(***************************************************************************)
C4_LabelIndexMapping ==
    pc = "returned" =>
        /\ \A i \in 0..193 :
              LET stop_loss == 4 + (i \div 2)
                  type == IF i % 2 = 0 THEN "Long" ELSE "Short"
                  order == Order(type, entry_price, stop_loss, 2 * stop_loss)
              IN  /\ SetupDecode(i) =
                        [in_range |-> TRUE, order_type |-> type, tick |-> stop_loss]
                  /\ SetupName(i) = Some(type \o "_" \o IntToStr(stop_loss))
                  /\ future_candles # <<>> =>
                        labels[i + 1] =
                           IF TargetBeforeStop(order, Tail(future_candles)) THEN 1 ELSE 0
        /\ SetupName(0) = Some("Long_4")
        /\ SetupName(1) = Some("Short_4")
        /\ SetupName(2) = Some("Long_5")
        /\ SetupName(3) = Some("Short_5")
        /\ SetupName(193) = Some("Short_100")

C4_Witness ==
    /\ pc = "returned"
    /\ Len(simulation_candles) >= 1
    /\ labels[1] = 1
    /\ labels[2] = 0
    /\ labels[3] = 0
    /\ labels[194] = 0

(***************************************************************************)
(* C5: with no candle later than the entry timestamp the result is 194     *)
(* zeros, and so it is with exactly one later candle (nothing is left to   *)
(* simulate on).                                                           *)
(***************************************************************************)
C5_NoFutureAllZero ==
    (pc = "returned" /\ Cardinality(Later) <= 1) => labels = ZeroLabels

C5_Witness ==
    /\ pc = "returned"
    /\ Cardinality(Later) = 1
    /\ future_candles[1].high >= future_candles[1].close + 8 * TickSize
    /\ labels = ZeroLabels

C5_WitnessNone ==
    /\ pc = "returned"
    /\ Cardinality(Later) = 0
    /\ Len(candle_df) >= 1
    /\ labels = ZeroLabels

(***************************************************************************)
(* fix_training_file.  A training file is a list of rows [timestamp,       *)
(* label_vector]; file is what is on disk, df the data frame read from it. *)
(* Each row of the loop is one step; the step after the last row is the    *)
(* save decision and the return of stats.                                  *)
(***************************************************************************)
\* sum(xs), by halves
RECURSIVE SumRange(_, _, _)
SumRange(xs, lo, hi) ==
    IF lo > hi THEN 0
    ELSE IF lo = hi THEN xs[lo]
    ELSE LET mid == (lo + hi) \div 2
         IN  SumRange(xs, lo, mid) + SumRange(xs, mid + 1, hi)

Sum(xs) == SumRange(xs, 1, Len(xs))

\* sum(1 for old, new in zip(current_labels, corrected_labels) if old != new)
LabelsChanged(current_labels, corrected_labels) ==
    Cardinality({ k \in 1..Min(Len(current_labels), Len(corrected_labels)) :
                    current_labels[k] # corrected_labels[k] })

ShouldSaveAlways(dry, rows_fixed) == rows_fixed > 0

\* the condition of df.to_parquet: not dry_run and stats['rows_fixed'] > 0
ShouldSave(dry, rows_fixed) == ~dry /\ rows_fixed > 0

FixShapes == { Flat, Shape(8 * TickSize, -2 * TickSize, 0) }

FixTables == { Stamp(s) : s \in SeqsUpTo(FixShapes, MaxFixCandles) }

OldLabelVectors == { ZeroLabels, [i \in 1..194 |-> i % 2] }

Rows == { [timestamp |-> t, label_vector |-> v] : t \in {0, 1}, v \in OldLabelVectors }

Files == SeqsUpTo(Rows, MaxRows)

FixInit ==
    /\ pc = "start"
    /\ candle_df \in FixTables
    /\ file \in Files
    /\ dry_run \in BOOLEAN
    /\ df = <<>>
    /\ idx = 0
    /\ stats = None
    /\ writes = 0
    /\ entry_timestamp = 0
    /\ future_candles = <<>>
    /\ entry_price = None
    /\ simulation_candles = <<>>
    /\ labels = <<>>
    /\ SimIdle
    /\ ModelIdle
    /\ PredIdle
    /\ ApiIdle

\* df = pd.read_parquet(file_path) and the initial stats
ReadFile ==
    /\ pc = "start"
    /\ df' = file
    /\ stats' = [total_rows |-> Len(file), rows_with_all_zeros |-> 0,
                 rows_fixed |-> 0, total_labels_changed |-> 0]
    /\ idx' = 0
    /\ pc' = "loop"
    /\ UNCHANGED <<file, dry_run, writes, labelVars, simVars, modelVars, predVars, apiVars>>

\* one iteration of "for idx, row in df.iterrows()"
ProcessRow ==
    /\ pc = "loop"
    /\ idx < Len(df)
    /\ LET row == df[idx + 1]
           timestamp == row.timestamp
           current_labels == row.label_vector
           r == generate_correct_labels(timestamp, candle_df)
           corrected_labels == r.labels
       IN  /\ stats' =
                [stats EXCEPT
                   !.rows_with_all_zeros =
                       IF Sum(current_labels) = 0 THEN @ + 1 ELSE @,
                   !.rows_fixed = @ + 1,
                   !.total_labels_changed =
                       @ + LabelsChanged(current_labels, corrected_labels)]
           /\ df' = [df EXCEPT ![idx + 1].label_vector = corrected_labels]
           /\ entry_timestamp' = timestamp
           /\ future_candles' = r.future_candles
           /\ entry_price' = r.entry_price
           /\ simulation_candles' = r.simulation_candles
           /\ labels' = corrected_labels
    /\ idx' = idx + 1
    /\ UNCHANGED <<pc, candle_df, file, dry_run, writes, simVars, modelVars, predVars, apiVars>>

\* after the loop: save unless dry_run, then return stats
SaveAndReturn ==
    /\ pc = "loop"
    /\ idx = Len(df)
    /\ IF ShouldSave(dry_run, stats.rows_fixed)
       THEN /\ file' = df
            /\ writes' = writes + 1
       ELSE UNCHANGED <<file, writes>>
    /\ pc' = "done"
    /\ UNCHANGED <<df, idx, stats, dry_run, labelVars, simVars, modelVars, predVars, apiVars>>

FixNext == ReadFile \/ ProcessRow \/ SaveAndReturn

SpecFix == FixInit /\ [][FixNext]_vars

\* the statistics of a run on file f, from the inputs alone
RECURSIVE ChangedUpTo(_, _)
ChangedUpTo(f, n) ==
    IF n = 0 THEN 0
    ELSE LET new == generate_correct_labels(f[n].timestamp, candle_df).labels
         IN  ChangedUpTo(f, n - 1)
             + Cardinality({ k \in 1..194 : f[n].label_vector[k] # new[k] })

ExpectedStats(f) ==
    [total_rows |-> Len(f),
     rows_with_all_zeros |->
         Cardinality({ i \in 1..Len(f) : f[i].label_vector = ZeroLabels }),
     rows_fixed |-> Len(f),
     total_labels_changed |-> ChangedUpTo(f, Len(f))]

(***************************************************************************)
(* C6: with dry_run true fix_training_file never writes the training file, *)
(* whatever the number of rows, so the file on disk is unchanged; the      *)
(* statistics it returns depend on the inputs alone, so they are those of  *)
(* a non-dry run on the same inputs.                                       *)
(***************************************************************************)
C6_DryRunWritesNothing ==
    /\ [][dry_run => (file' = file /\ writes' = writes)]_vars
    /\ [][pc' = "done" => stats' = stats]_vars
    /\ []((pc = "loop" /\ idx = Len(df)) => stats = ExpectedStats(file))
    /\ [](dry_run => writes = 0)

C6_Witness ==
    /\ pc = "done"
    /\ dry_run
    /\ Len(df) = 2
    /\ df # file
    /\ stats.total_labels_changed > 0
    /\ writes = 0

\* the same inputs without dry_run: the file is written
C6_WitnessSaved ==
    /\ pc = "done"
    /\ ~dry_run
    /\ writes = 1
    /\ stats.total_labels_changed > 0

(***************************************************************************)
(* predictor.py: BMPSPredictor.  A features argument is a Python list or a *)
(* numpy array; of an array the model keeps ndim and shape[0] (rows).      *)
(* model_probs is the probability row the loaded model gives the sample.   *)
(***************************************************************************)
Raise(e) == [exc |-> e, value |-> None]
Return(v) == [exc |-> "", value |-> v]

ArrayArg(ndim, rows, n) == [kind |-> "ndarray", ndim |-> ndim, rows |-> rows, n |-> n]

\* self.model.predict_probabilities(features, use_calibrated=True): one row per sample
predict_probabilities(rows) == [r \in 1..rows |-> model_probs]

\* features.shape[0] after "if features.ndim == 1: features = features.reshape(1, -1)"
RowsAfterReshape(features) == IF features.ndim = 1 THEN 1 ELSE features.rows

\* threshold, or self.default_threshold when it is None
EffectiveThreshold(threshold) ==
    IF threshold = None THEN default_threshold ELSE threshold[1]

AboveOrAtThreshold(probs, thr) == [i \in 1..Len(probs) |-> probs[i] >= thr]

\* probs > threshold
AboveThreshold(probs, thr) == [i \in 1..Len(probs) |-> probs[i] > thr]

\* np.any
AnyTrue(mask) == \E i \in 1..Len(mask) : mask[i]

ArgmaxLast(probs) ==
    CHOOSE i \in 0..(Len(probs) - 1) :
        /\ \A j \in 0..(Len(probs) - 1) : probs[j + 1] <= probs[i + 1]
        /\ \A j \in (i + 1)..(Len(probs) - 1) : probs[j + 1] < probs[i + 1]

\* np.argmax: the (0-based) index of the first occurrence of the maximum
Argmax(probs) ==
    CHOOSE i \in 0..(Len(probs) - 1) :
        /\ \A j \in 0..(Len(probs) - 1) : probs[j + 1] <= probs[i + 1]
        /\ \A j \in 0..(i - 1) : probs[j + 1] < probs[i + 1]

predict_best_setup(features, threshold) ==
    LET thr == EffectiveThreshold(threshold)
    IN  IF features.kind # "ndarray"
        THEN Raise("AttributeError")    \* features.ndim of a list
        ELSE LET rows == RowsAfterReshape(features)
                 probabilities == predict_probabilities(rows)
             IN  IF rows = 1
                 THEN LET probs == probabilities[1]
                          above_threshold == AboveThreshold(probs, thr)
                      IN  IF ~AnyTrue(above_threshold)
                          THEN Return([best_setup |-> None, probability |-> 0])
                          ELSE LET best_idx == Argmax(probs)
                                   best_prob == probs[best_idx + 1]
                               IN  IF best_prob > thr
                                   THEN Return([best_setup |-> Some(best_idx),
                                                probability |-> best_prob])
                                   ELSE Return([best_setup |-> None, probability |-> 0])
                 ELSE Raise("ValueError")

\* np.where(mask)[0]: the (0-based) indices where the mask holds, ascending
RECURSIVE WhereFrom(_, _)
WhereFrom(mask, i) ==
    IF i > Len(mask) THEN <<>>
    ELSE (IF mask[i] THEN <<i - 1>> ELSE <<>>) \o WhereFrom(mask, i + 1)

Where(mask) == WhereFrom(mask, 1)

PositionOrders(n) == { p \in [1..n -> 1..n] : \A a, b \in 1..n : a # b => p[a] # p[b] }

\* np.argsort(v): the default sort is not stable, so every ascending order of
\* the (1-based) positions is a possible result
Argsort(v) ==
    { p \in PositionOrders(Len(v)) : \A k \in 1..(Len(v) - 1) : v[p[k]] <= v[p[k + 1]] }

\* xs[::-1]
Reverse(xs) == [k \in 1..Len(xs) |-> xs[Len(xs) + 1 - k]]

\* range(m): empty when m <= 0
RangeLen(m) == IF m < 0 THEN 0 ELSE m

\* the possible outcomes of predict_top_setups(features, threshold, top_n)
predict_top_setups(features, threshold, top_n) ==
    LET thr == EffectiveThreshold(threshold)
        n == IF top_n = None THEN top_n_setups ELSE top_n[1]
    IN  IF features.kind # "ndarray"
        THEN { Raise("AttributeError") }
        ELSE LET rows == RowsAfterReshape(features)
                 probabilities == predict_probabilities(rows)
             IN  IF rows = 1
                 THEN LET probs == probabilities[1]
                          above_threshold == AboveThreshold(probs, thr)
                      IN  IF ~AnyTrue(above_threshold)
                          THEN { Return(<<>>) }
                          ELSE LET viable_indices == Where(above_threshold)
                                   viable_probs ==
                                       [k \in 1..Len(viable_indices) |->
                                           probs[viable_indices[k] + 1]]
                               IN  { Return([i \in 1..RangeLen(Min(n, Len(sorted_indices))) |->
                                               <<viable_indices[sorted_indices[i]],
                                                 viable_probs[sorted_indices[i]]>>]) :
                                       sorted_indices \in
                                           { Reverse(p) : p \in Argsort(viable_probs) } }
                 ELSE { Raise("ValueError") }

(***************************************************************************)
(* The predictor on its own: every probability row, threshold, top_n and   *)
(* features argument of the bounds.                                        *)
(***************************************************************************)
ProbGrid == {0, 50, 70, 90}

ProbRows == [1..NSetups -> ProbGrid]

Thresholds == {None} \cup { Some(t) : t \in {0, 50, 70} }

TopNs == {None} \cup { Some(n) : n \in 0..MaxTopN }

FeatureArgs ==
    { ArrayArg(1, 69, 69), ArrayArg(2, 1, 69), ArrayArg(2, 2, 69), ListArg(69) }

PredInit ==
    /\ pc = "call"
    /\ model_probs \in ProbRows
    /\ default_threshold \in {50, 70}
    /\ top_n_setups = 2
    /\ p_features \in FeatureArgs
    /\ p_threshold \in Thresholds
    /\ p_top_n \in TopNs
    /\ p_result = NoResult
    /\ SimIdle
    /\ LabelIdle
    /\ FixIdle
    /\ ApiIdle

CallPredictBest ==
    /\ pc = "call"
    /\ p_result' = predict_best_setup(p_features, p_threshold)
    /\ pc' = "best"
    /\ UNCHANGED <<p_features, p_threshold, p_top_n, modelVars, simVars, labelVars, fixVars,
                   apiVars>>

CallPredictTop ==
    /\ pc = "call"
    /\ \E r \in predict_top_setups(p_features, p_threshold, p_top_n) : p_result' = r
    /\ pc' = "top"
    /\ UNCHANGED <<p_features, p_threshold, p_top_n, modelVars, simVars, labelVars, fixVars,
                   apiVars>>

PredNext == CallPredictBest \/ CallPredictTop

SpecPredictor == PredInit /\ [][PredNext]_vars

\* a single feature vector: shape (n_features,) or (1, n_features)
SingleVector == p_features.kind = "ndarray" /\ RowsAfterReshape(p_features) = 1

\* the (0-based) setups whose probability strictly exceeds the threshold in force
Exceeding ==
    { i \in 0..(Len(model_probs) - 1) :
        model_probs[i + 1] > EffectiveThreshold(p_threshold) }

C9_WitnessNone ==
    /\ pc = "best"
    /\ SingleVector
    /\ p_result.value.best_setup = None
    /\ \E i \in 1..Len(model_probs) : model_probs[i] = EffectiveThreshold(p_threshold)

\* top_n, or self.top_n_setups when it is None
EffectiveTopN == IF p_top_n = None THEN top_n_setups ELSE p_top_n[1]

\* what the claim and its amendment share: the pairs are distinct setups with
\* their own probabilities, all strictly above the threshold, in non-increasing
\* order, and no omitted setup beats a returned one
TopSetupsWellFormed(res) ==
    /\ \A k \in 1..Len(res) :
          /\ res[k][1] \in Exceeding
          /\ res[k][2] = model_probs[res[k][1] + 1]
          /\ res[k][2] > EffectiveThreshold(p_threshold)
    /\ \A k, l \in 1..Len(res) : k # l => res[k][1] # res[l][1]
    /\ \A k \in 1..(Len(res) - 1) : res[k][2] >= res[k + 1][2]
    /\ \A j \in 0..(Len(model_probs) - 1) :
          (\A k \in 1..Len(res) : res[k][1] # j) =>
              \A k \in 1..Len(res) : model_probs[j + 1] <= res[k][2]

C10_WitnessZero ==
    /\ pc = "top"
    /\ SingleVector
    /\ EffectiveTopN = 0
    /\ Exceeding # {}
    /\ p_result.value = <<>>

(***************************************************************************)
(* api.py: the FastAPI application.  predictor is the module global; a     *)
(* request body is validated against its pydantic model before the handler *)
(* runs (422 on failure); a handler's HTTPException becomes the response.  *)
(* A response keeps the status, the error detail (its fixed part), the     *)
(* body, and whether the handler called into the predictor.                *)
(***************************************************************************)
ValidPredictionRequestAnyLength(req) ==
    /\ req.threshold >= 0
    /\ req.threshold <= 100

\* PredictionRequest: features min_length = max_length = 69, threshold ge 0.0 le 1.0
ValidPredictionRequest(req) ==
    /\ req.features.n = NFeatures
    /\ req.threshold >= 0
    /\ req.threshold <= 100

\* BatchPredictionRequest: threshold ge 0.0 le 1.0, top_k ge 1 le 10
ValidBatchRequest(req) ==
    /\ req.threshold >= 0
    /\ req.threshold <= 100
    /\ req.top_k >= 1
    /\ req.top_k <= 10

ConfidenceInclusive(probability) ==
    IF probability = None THEN "none"
    ELSE IF probability[1] <= 60 THEN "low"
    ELSE IF probability[1] <= 80 THEN "medium"
    ELSE "high"

\* the confidence level the handlers derive from probability
Confidence(probability) ==
    IF probability = None THEN "none"
    ELSE IF probability[1] < 60 THEN "low"
    ELSE IF probability[1] < 80 THEN "medium"
    ELSE "high"

\* the PredictionResponse built from a returned (best_setup, probability)
PredictionBody(value) ==
    [best_setup |-> value.best_setup,
     probability |-> Some(value.probability),
     setup_name |-> IF value.best_setup # None
                    THEN SetupName(value.best_setup[1]) ELSE None,
     confidence |-> Confidence(Some(value.probability)),
     inference_time_ms |-> Some("ms")]

HealthProbePropagates ==
    LET r == predict_best_setup(ListArg(NFeatures), Some(90))
    IN  IF r.exc = ""
        THEN Response("/health", 200, "",
                      [status |-> "healthy", model_loaded |-> TRUE,
                       inference_time_ms |-> Some("ms")], TRUE)
        ELSE Response("/health", 500, "Internal Server Error", None, TRUE)

\* the try block of health_check: a probe on 69 zeros, every exception caught
HealthProbe ==
    LET r == predict_best_setup(ListArg(NFeatures), Some(90))
    IN  IF r.exc = ""
        THEN Response("/health", 200, "",
                      [status |-> "healthy", model_loaded |-> TRUE,
                       inference_time_ms |-> Some("ms")], TRUE)
        ELSE Response("/health", 200, "",
                      [status |-> "unhealthy", model_loaded |-> TRUE,
                       inference_time_ms |-> None], TRUE)

HandleHealthUnguarded == HealthProbe

\* GET /health
HandleHealth ==
    IF predictor = None
    THEN Response("/health", 503, "Model not loaded", None, FALSE)
    ELSE HealthProbe

\* POST /predict
HandlePredict(req) ==
    IF predictor = None
    THEN Response("/predict", 503, "Model not loaded", None, FALSE)
    ELSE LET r == predict_best_setup(req.features, Some(req.threshold))
         IN  IF r.exc = ""
             THEN Response("/predict", 200, "", PredictionBody(r.value), TRUE)
             ELSE Response("/predict", 500, "Prediction failed", None, TRUE)

\* the loop of predict_batch from element k on: the predictions, or the
\* exception that ends it (the HTTPException(400) of a wrong length included)
RECURSIVE BatchLoop(_, _)
BatchLoop(req, k) ==
    IF k > Len(req.features_batch)
    THEN [exc |-> "", value |-> <<>>, called |-> FALSE]
    ELSE LET features == req.features_batch[k]
         IN  IF features.n # NFeatures
             THEN [exc |-> "HTTPException", value |-> None, called |-> FALSE]
             ELSE LET r == predict_best_setup(features, Some(req.threshold))
                      rest == BatchLoop(req, k + 1)
                  IN  IF r.exc # ""
                      THEN [exc |-> r.exc, value |-> None, called |-> TRUE]
                      ELSE IF rest.exc # ""
                      THEN [exc |-> rest.exc, value |-> None, called |-> TRUE]
                      ELSE [exc |-> "", value |-> <<PredictionBody(r.value)>> \o rest.value,
                            called |-> TRUE]

\* POST /predict/batch: "except Exception" catches the HTTPException too
HandlePredictBatch(req) ==
    IF predictor = None
    THEN Response("/predict/batch", 503, "Model not loaded", None, FALSE)
    ELSE LET r == BatchLoop(req, 1)
         IN  IF r.exc = ""
             THEN Response("/predict/batch", 200, "",
                           [predictions |-> r.value, total_inference_time_ms |-> Some("ms")],
                           r.called)
             ELSE Response("/predict/batch", 500, "Batch prediction failed", None, r.called)

\* the parameters of BMPSPredictor.predict_top_setups, and the keywords the
\* handler passes (features, threshold, top_k)
TopSetupsParameters == {"features", "threshold", "top_n"}
TopSetupsKeywords == {"features", "threshold", "top_k"}

\* predictor.predict_top_setups(features=..., threshold=..., top_k=5)
CallTopSetups(req) ==
    IF TopSetupsKeywords \subseteq TopSetupsParameters
    THEN predict_top_setups(req.features, Some(req.threshold), Some(5))
    ELSE { Raise("TypeError") }

\* f"{setup_id:03d}": at least three digits, zero-padded
Pad3(n) ==
    IF n < 10 THEN "00" \o IntToStr(n)
    ELSE IF n < 100 THEN "0" \o IntToStr(n)
    ELSE IntToStr(n)

\* one entry of top_setups
TopEntry(pair) ==
    LET d == SetupDecode(pair[1])
    IN  [setup |-> pair[1], probability |-> pair[2],
         setup_name |-> IF d.in_range
                        THEN d.order_type \o "_" \o IntToStr(d.tick)
                        ELSE "Setup_" \o Pad3(pair[1])]

\* POST /predict/top: the possible responses
HandlePredictTop(req) ==
    IF predictor = None
    THEN { Response("/predict/top", 503, "Model not loaded", None, FALSE) }
    ELSE { IF r.exc = ""
           THEN Response("/predict/top", 200, "",
                         [top_setups |-> [k \in 1..Len(r.value) |-> TopEntry(r.value[k])],
                          count |-> Len(r.value), inference_time_ms |-> Some("ms")], TRUE)
           ELSE Response("/predict/top", 500, "Prediction failed", None, TRUE) :
           r \in CallTopSetups(req) }

\* the methods class BMPSPredictor defines
PredictorMethods ==
    {"predict_best_setup", "predict_top_setups", "predict_batch",
     "get_prediction_confidence", "explain_prediction"}

\* GET /model/info: predictor.get_model_summary()
HandleModelInfo ==
    IF predictor = None
    THEN Response("/model/info", 503, "Model not loaded", None, FALSE)
    ELSE IF "get_model_summary" \in PredictorMethods
    THEN Response("/model/info", 200, "",
                  [model_type |-> "XGBoost Multi-Target", n_features |-> 69,
                   n_targets |-> 194, api_version |-> "1.0.0"], TRUE)
    ELSE Response("/model/info", 500, "Failed to get model info", None, TRUE)

\* the 422 of a body that fails validation
Unprocessable(endpoint) == Response(endpoint, 422, "validation error", None, FALSE)

(***************************************************************************)
(* The requests tried, and the server.                                     *)
(***************************************************************************)
FeatureLists == { ListArg(n) : n \in {NFeatures - 1, NFeatures, NFeatures + 1} }

RequestThresholds == {-1, 0, 70, 100, 101}

PredictionRequests(endpoint) ==
    { Request(endpoint, f, <<>>, t, 5) : f \in FeatureLists, t \in RequestThresholds }

BatchRequests ==
    { Request("/predict/batch", ListArg(0), b, t, k) :
        b \in SeqsUpTo({ListArg(NFeatures - 1), ListArg(NFeatures)}, MaxBatch),
        t \in {70, 101}, k \in {0, 5} }

ApiInit ==
    /\ pc = "app"
    /\ server = "created"
    /\ predictor = None
    /\ request = NoRequest
    /\ response = NoResponse
    /\ ModelIdle
    /\ PredIdle
    /\ SimIdle
    /\ LabelIdle
    /\ FixIdle

\* lifespan startup, before the first request: BMPSPredictor() loads the model
Startup ==
    /\ server = "created"
    /\ response = NoResponse
    /\ predictor' = Some("BMPSPredictor")
    /\ model_probs' \in ProbRows
    /\ default_threshold' \in {50, 70}
    /\ top_n_setups' = 2
    /\ server' = "serving"
    /\ UNCHANGED <<pc, request, response, predVars, simVars, labelVars, fixVars>>

\* lifespan startup when BMPSPredictor() raises: the exception is re-raised
StartupFails ==
    /\ server = "created"
    /\ response = NoResponse
    /\ server' = "failed"
    /\ UNCHANGED <<pc, predictor, request, response, modelVars, predVars, simVars,
                   labelVars, fixVars>>

Serve(req, resp) ==
    /\ server # "failed"
    /\ request' = req
    /\ response' = resp
    /\ UNCHANGED <<pc, server, predictor, modelVars, predVars, simVars, labelVars, fixVars>>

Health == Serve(Request("/health", ListArg(0), <<>>, 0, 0), HandleHealth)

Predict ==
    \E req \in PredictionRequests("/predict") :
        Serve(req, IF ValidPredictionRequest(req)
                   THEN HandlePredict(req) ELSE Unprocessable("/predict"))

PredictBatch ==
    \E req \in BatchRequests :
        Serve(req, IF ValidBatchRequest(req)
                   THEN HandlePredictBatch(req) ELSE Unprocessable("/predict/batch"))

PredictTop ==
    \E req \in PredictionRequests("/predict/top") :
        IF ValidPredictionRequest(req)
        THEN \E resp \in HandlePredictTop(req) : Serve(req, resp)
        ELSE Serve(req, Unprocessable("/predict/top"))

ModelInfo == Serve(Request("/model/info", ListArg(0), <<>>, 0, 0), HandleModelInfo)

\* the routes api.py registers: (method, path) of each @app decorator
Routes ==
    { <<"GET", "/health">>, <<"POST", "/predict">>, <<"POST", "/predict/batch">>,
      <<"POST", "/predict/top">>, <<"GET", "/model/info">> }

\* the requests test_simplified.py and test_comprehensive.py send
TestedEndpoints ==
    { <<"GET", "/health">>, <<"POST", "/predictedPointMoves">>, <<"POST", "/predict">>,
      <<"POST", "/predict/batch">>, <<"POST", "/predict/signals">>, <<"GET", "/model/info">> }

\* a tested request whose path no route registers never reaches a handler:
\* the router answers 404
Unrouted ==
    \E e \in TestedEndpoints :
        /\ e[2] \notin { r[2] : r \in Routes }
        /\ Serve(Request(e[2], ListArg(0), <<>>, 0, 0),
                 Response(e[2], 404, "Not Found", None, FALSE))

ApiNext ==
    \/ Startup
    \/ StartupFails
    \/ Health
    \/ Predict
    \/ PredictBatch
    \/ PredictTop
    \/ ModelInfo
    \/ Unrouted

SpecApi == ApiInit /\ [][ApiNext]_vars

ApiEndpoints == {"/health", "/predict", "/predict/batch", "/predict/top", "/model/info"}

\* whether the body of the last request passes its pydantic model (GET: no body)
RequestValid ==
    IF request.endpoint \in {"/predict", "/predict/top"} THEN ValidPredictionRequest(request)
    ELSE IF request.endpoint = "/predict/batch" THEN ValidBatchRequest(request)
    ELSE TRUE

(***************************************************************************)
(* C7 as claimed: while predictor is None, each of GET /health, POST       *)
(* /predict, POST /predict/batch, POST /predict/top and GET /model/info    *)
(* responds 503 "Model not loaded", and no inference is performed.         *)
(***************************************************************************)
C7_NotLoadedAsClaimed ==
    (predictor = None /\ response.endpoint \in ApiEndpoints) =>
        /\ response.status = 503
        /\ response.detail = "Model not loaded"
        /\ ~response.predictor_called

(***************************************************************************)
(* C7 as amended: while predictor is None, the two GET endpoints, and the  *)
(* three POST endpoints on a body that passes validation, respond 503      *)
(* "Model not loaded"; a POST body that fails validation is answered 422   *)
(* instead; in both cases no inference is performed.                       *)
(***************************************************************************)
C7_NotLoaded ==
    (predictor = None /\ response.endpoint \in ApiEndpoints) =>
        /\ ~response.predictor_called
        /\ RequestValid => (response.status = 503 /\ response.detail = "Model not loaded")
        /\ ~RequestValid => response.status = 422

C7_Witness ==
    /\ predictor = None
    /\ response.endpoint = "/predict/batch"
    /\ Len(request.features_batch) = 2
    /\ RequestValid
    /\ response.status = 503

\* the setup POST /predict is to name: the first of the most probable setups
\* when its probability exceeds the request's threshold
ExpectedBestSetup ==
    LET exceeding == { i \in 0..(Len(model_probs) - 1) :
                         model_probs[i + 1] > request.threshold }
    IN  IF exceeding = {} THEN None
        ELSE Some(CHOOSE i \in exceeding :
                    /\ \A j \in 0..(Len(model_probs) - 1) :
                          model_probs[j + 1] <= model_probs[i + 1]
                    /\ \A j \in 0..(i - 1) : model_probs[j + 1] < model_probs[i + 1])

(***************************************************************************)
(* C8: with the model loaded, POST /predict on exactly 69 features and a   *)
(* threshold in [0,1] responds 200 (never 500), and best_setup is the      *)
(* index of the most probable setup above the threshold, or null when      *)
(* there is none.                                                          *)
(***************************************************************************)
C8_PredictSucceeds ==
    (predictor # None /\ response.endpoint = "/predict" /\ RequestValid) =>
        /\ response.status = 200
        /\ response.body.best_setup = ExpectedBestSetup


(***************************************************************************)
(* C11: with the model loaded, POST /predict/top on a valid 69-feature     *)
(* request responds 200 with a top_setups list of at most 5 entries, each  *)
(* above the threshold and carrying setup, probability and setup_name, and *)
(* count is the number of entries.                                         *)
(***************************************************************************)
C11_PredictTopSucceeds ==
    (predictor # None /\ response.endpoint = "/predict/top" /\ RequestValid) =>
        /\ response.status = 200
        /\ Len(response.body.top_setups) <= 5
        /\ response.body.count = Len(response.body.top_setups)
        /\ \A k \in 1..Len(response.body.top_setups) :
              /\ DOMAIN response.body.top_setups[k] = {"setup", "probability", "setup_name"}
              /\ response.body.top_setups[k].probability > request.threshold

\* some feature array of the last batch request does not have 69 elements
SomeWrongLength ==
    \E k \in 1..Len(request.features_batch) : request.features_batch[k].n # NFeatures

(***************************************************************************)
(* C12: with the model loaded, POST /predict/batch responds 400 whenever   *)
(* some feature array of features_batch does not have exactly 69 elements. *)
(***************************************************************************)
C12_BatchRejectsWrongLength ==
    (/\ predictor # None
     /\ response.endpoint = "/predict/batch"
     /\ RequestValid
     /\ SomeWrongLength) => response.status = 400

\* the last request is a single-prediction request that breaks a constraint
\* of PredictionRequest
BadPredictionRequest ==
    /\ request.endpoint \in {"/predict", "/predict/top"}
    /\ \/ request.features.n # NFeatures
       \/ request.threshold < 0
       \/ request.threshold > 100

(***************************************************************************)
(* C13: a request to POST /predict or POST /predict/top whose features     *)
(* list does not have exactly 69 elements, or whose threshold is outside   *)
(* [0,1], is answered 422 and the predictor is not called, whether or not  *)
(* the model is loaded.                                                    *)
(***************************************************************************)
C13_ValidationRejects ==
    (response.endpoint \in {"/predict", "/predict/top"} /\ BadPredictionRequest) =>
        /\ response.status = 422
        /\ ~response.predictor_called

\* the model is loaded and one feature too many is rejected
C13_Witness ==
    /\ predictor # None
    /\ response.endpoint = "/predict/top"
    /\ request.features.n = NFeatures + 1
    /\ request.threshold = 70
    /\ response.status = 422

\* the model is loaded and a threshold above 1 is rejected
C13_WitnessThreshold ==
    /\ predictor # None
    /\ response.endpoint = "/predict"
    /\ request.features.n = NFeatures
    /\ request.threshold = 101
    /\ response.status = 422


(***************************************************************************)
(* The response the handlers build from what the predictor returns: the    *)
(* code after the call in predict_best_setup (api.py 193-231) and in the   *)
(* loop of predict_batch (api.py 265-295), on every (best_setup,           *)
(* probability) that BMPSPredictor.predict_best_setup returns for one      *)
(* sample.  The probabilities lie on both sides of 0.6 and 0.8.            *)
(***************************************************************************)
ConfidenceGrid == {0, 59, 60, 79, 80, 100}

RespondInit ==
    /\ pc = "call"
    /\ model_probs \in [1..NSetups -> ConfidenceGrid]
    /\ default_threshold = 70
    /\ top_n_setups = 2
    /\ p_features \in { ArrayArg(1, NFeatures, NFeatures), ArrayArg(2, 1, NFeatures) }
    /\ p_threshold \in { Some(t) : t \in {0, 60, 100} }
    /\ p_top_n = None
    /\ p_result = NoResult
    /\ server = "serving"
    /\ predictor = Some("BMPSPredictor")
    /\ request = NoRequest
    /\ response = NoResponse
    /\ SimIdle
    /\ LabelIdle
    /\ FixIdle

\* predict_best_setup (api.py) from the returned tuple to the PredictionResponse
RespondPredict ==
    /\ pc = "best"
    /\ p_result.exc = ""
    /\ response' = Response("/predict", 200, "", PredictionBody(p_result.value), TRUE)
    /\ pc' = "respond"
    /\ UNCHANGED <<server, predictor, request, predVars, modelVars, simVars, labelVars,
                   fixVars>>

\* predict_batch (api.py) on a batch of one: from the returned tuple to the
\* BatchPredictionResponse
RespondBatch ==
    /\ pc = "best"
    /\ p_result.exc = ""
    /\ response' = Response("/predict/batch", 200, "",
                            [predictions |-> <<PredictionBody(p_result.value)>>,
                             total_inference_time_ms |-> Some("ms")], TRUE)
    /\ pc' = "respond"
    /\ UNCHANGED <<server, predictor, request, predVars, modelVars, simVars, labelVars,
                   fixVars>>

RespondNext == CallPredictBest \/ RespondPredict \/ RespondBatch

SpecRespond == RespondInit /\ [][RespondNext]_vars

\* the PredictionResponse objects of the last response
PredictionBodies ==
    IF response.endpoint = "/predict" THEN {response.body}
    ELSE IF response.endpoint = "/predict/batch"
    THEN { response.body.predictions[k] : k \in 1..Len(response.body.predictions) }
    ELSE {}

C14_WitnessMedium ==
    /\ pc = "respond"
    /\ response.endpoint = "/predict/batch"
    /\ response.body.predictions[1].probability = Some(60)
    /\ response.body.predictions[1].confidence = "medium"

C14_WitnessHigh ==
    /\ pc = "respond"
    /\ response.endpoint = "/predict"
    /\ response.body.probability = Some(80)
    /\ response.body.confidence = "high"


\* whether the probe inference of health_check, on 69 zeros with threshold
\* 0.9, raises
ProbeRaises == predict_best_setup(ListArg(NFeatures), Some(90)).exc # ""

(***************************************************************************)
(* C15: with the predictor loaded, GET /health always responds 200 with    *)
(* the fields status, model_loaded (true) and inference_time_ms; status is *)
(* "healthy" with a numeric inference_time_ms exactly when the probe       *)
(* inference raised nothing, and "unhealthy" with inference_time_ms null   *)
(* otherwise; the probe's exception never reaches the client.              *)
(***************************************************************************)
C15_HealthAlways200 ==
    (predictor # None /\ response.endpoint = "/health") =>
        /\ response.status = 200
        /\ DOMAIN response.body = {"status", "model_loaded", "inference_time_ms"}
        /\ response.body.model_loaded = TRUE
        /\ response.body.status \in {"healthy", "unhealthy"}
        /\ response.body.status = "healthy" <=> ~ProbeRaises
        /\ response.body.status = "healthy" => response.body.inference_time_ms # None
        /\ response.body.status = "unhealthy" => response.body.inference_time_ms = None

\* the probe raised (features.ndim of a list) and the answer is 200 unhealthy
C15_Witness ==
    /\ predictor # None
    /\ response.endpoint = "/health"
    /\ ProbeRaises
    /\ response.status = 200
    /\ response.body.status = "unhealthy"
    /\ response.predictor_called


(***************************************************************************)
(* C16: the server serves every endpoint the tests exercise (GET /health,  *)
(* POST /predictedPointMoves, POST /predict, POST /predict/batch, POST     *)
(* /predict/signals, GET /model/info): none of them is answered 404.       *)
(***************************************************************************)
C16_TestedEndpointsServed ==
    (\E e \in TestedEndpoints : response.endpoint = e[2]) => response.status # 404


(***************************************************************************)
(* add_features.py, step 7: the 1.5 ATR targets.  A row keeps high, low,   *)
(* close and atr (None for NaN); prices and ATR are in hundredths.  The    *)
(* 0-based row i of the script is row i + 1 here, and range(i + 1,         *)
(* end_idx) is the rows i + 2 .. end_idx.                                  *)
(***************************************************************************)
RECURSIVE LongLoopTargetFirst(_, _, _, _, _)
LongLoopTargetFirst(rows, j, end_idx, long_sl, long_tp) ==
    IF j > end_idx THEN 0
    ELSE IF rows[j].high >= long_tp THEN 1
    ELSE IF rows[j].low <= long_sl THEN 0
    ELSE LongLoopTargetFirst(rows, j + 1, end_idx, long_sl, long_tp)

\* "Long Logic": the value long_targets[i] has after the loop from row j on
RECURSIVE LongLoop(_, _, _, _, _)
LongLoop(rows, j, end_idx, long_sl, long_tp) ==
    IF j > end_idx THEN 0
    ELSE IF rows[j].low <= long_sl THEN 0
    ELSE IF rows[j].high >= long_tp THEN 1
    ELSE LongLoop(rows, j + 1, end_idx, long_sl, long_tp)

\* "Short Logic": the value short_targets[i] has after the loop from row j on
RECURSIVE ShortLoop(_, _, _, _, _)
ShortLoop(rows, j, end_idx, short_sl, short_tp) ==
    IF j > end_idx THEN 0
    ELSE IF rows[j].high >= short_sl THEN 0
    ELSE IF rows[j].low <= short_tp THEN 1
    ELSE ShortLoop(rows, j + 1, end_idx, short_sl, short_tp)

\* np.isnan(cur_atr) or cur_atr == 0: the row is skipped
SkipRow(row) == row.atr = None \/ row.atr[1] = 0

\* end_idx = min(i + horizon, n), for row r = i + 1
EndIdx(r, n) == Min(r - 1 + Horizon, n)

\* 1.5 * cur_atr
OneAndAHalf(atr) == (3 * atr) \div 2

\* the body of "for i in range(n)" for row r: (long_targets[i], short_targets[i])
TargetsOfRow(rows, r) ==
    LET entry == rows[r].close
        cur_atr == rows[r].atr
    IN  IF SkipRow(rows[r])
        THEN [long |-> 0, short |-> 0]
        ELSE LET long_tp == entry + OneAndAHalf(cur_atr[1])
                 long_sl == entry - cur_atr[1]
                 short_tp == entry - OneAndAHalf(cur_atr[1])
                 short_sl == entry + cur_atr[1]
                 end_idx == EndIdx(r, Len(rows))
             IN  [long |-> LongLoop(rows, r + 1, end_idx, long_sl, long_tp),
                  short |-> ShortLoop(rows, r + 1, end_idx, short_sl, short_tp)]

(***************************************************************************)
(* The targets on their own: every table of the bounds.  The shapes touch  *)
(* the levels of a 1.00 ATR (stop at 1.00, target at 1.50 from the entry): *)
(* neither, both, one of them, or miss both by 0.01.                       *)
(***************************************************************************)
TargetShapes ==
    { Flat,
      Shape(150, -100, 0),
      Shape(100, -150, 0),
      Shape(150, -25, 0),
      Shape(25, -150, 0),
      Shape(149, -99, 0),
      Shape(75, 25, 50) }

TargetRows ==
    { [high |-> s.high, low |-> s.low, close |-> s.close, atr |-> a] :
        s \in TargetShapes, a \in {None, Some(0), Some(100)} }

TargetsInit ==
    /\ pc = "rows"
    /\ af_df \in SeqsUpTo(TargetRows, MaxTargetRows)
    /\ long_targets = <<>>
    /\ short_targets = <<>>
    /\ sim_order = None
    /\ sim_candles = <<>>
    /\ sim_result = None
    /\ LabelIdle
    /\ FixIdle
    /\ ModelIdle
    /\ PredIdle
    /\ ApiIdle

\* step 7 of add_features: both arrays, for every row
CalculateTargets ==
    /\ pc = "rows"
    /\ long_targets' = [r \in 1..Len(af_df) |-> TargetsOfRow(af_df, r).long]
    /\ short_targets' = [r \in 1..Len(af_df) |-> TargetsOfRow(af_df, r).short]
    /\ pc' = "targets"
    /\ UNCHANGED <<af_df, sim_order, sim_candles, sim_result, labelVars, fixVars, modelVars,
                   predVars, apiVars>>

TargetsNext == CalculateTargets

SpecTargets == TargetsInit /\ [][TargetsNext]_vars

\* the Order of fix_labels.py with the levels add_features gives row r:
\* stop 1.0 ATR and target 1.5 ATR from the close, in ticks
SameLevelsOrder(type, row) ==
    Order(type, row.close, row.atr[1] \div TickSize, OneAndAHalf(row.atr[1]) \div TickSize)

\* the candles add_features scans for row r
ScannedRows(rows, r) == SubSeq(rows, r + 1, EndIdx(r, Len(rows)))

\* the first candle that touches either level touches both
FirstTouchBoth(order, candles) ==
    \E k \in 1..Len(candles) :
        /\ TouchesStop(order, candles[k])
        /\ TouchesTarget(order, candles[k])
        /\ \A j \in 1..(k - 1) :
              ~TouchesStop(order, candles[j]) /\ ~TouchesTarget(order, candles[j])

(***************************************************************************)
(* C17: for every row add_features simulates, its long and short targets   *)
(* equal the result of simulate_order on the order with the same entry,    *)
(* stop and target levels over the same candles; and when the first candle *)
(* that touches either level touches both, both simulators give a loss.    *)
(***************************************************************************)
C17_SimulatorsAgree ==
    pc = "targets" =>
        \A r \in 1..Len(af_df) :
            ~SkipRow(af_df[r]) =>
                LET candles == ScannedRows(af_df, r)
                    long == SameLevelsOrder("Long", af_df[r])
                    short == SameLevelsOrder("Short", af_df[r])
                IN  /\ long_targets[r] \in {0, 1}
                    /\ short_targets[r] \in {0, 1}
                    /\ long_targets[r] = 1 <=> simulate_order(long, candles)
                    /\ short_targets[r] = 1 <=> simulate_order(short, candles)
                    /\ FirstTouchBoth(long, candles) =>
                          (long_targets[r] = 0 /\ ~simulate_order(long, candles))
                    /\ FirstTouchBoth(short, candles) =>
                          (short_targets[r] = 0 /\ ~simulate_order(short, candles))

\* a quiet candle, then one that touches both long levels: a loss
C17_Witness ==
    /\ pc = "targets"
    /\ Len(af_df) = 3
    /\ ~SkipRow(af_df[1])
    /\ af_df[2] \in { row \in TargetRows : row.high = Flat.high /\ row.low = Flat.low }
    /\ FirstTouchBoth(SameLevelsOrder("Long", af_df[1]), ScannedRows(af_df, 1))
    /\ long_targets[1] = 0

\* the same for the short side
C17_WitnessShort ==
    /\ pc = "targets"
    /\ Len(af_df) = 3
    /\ ~SkipRow(af_df[1])
    /\ ~TouchesStop(SameLevelsOrder("Short", af_df[1]), af_df[2])
    /\ FirstTouchBoth(SameLevelsOrder("Short", af_df[1]), ScannedRows(af_df, 1))
    /\ short_targets[1] = 0

\* a long win that is a short loss, on the second candle
C17_WitnessWin ==
    /\ pc = "targets"
    /\ Len(af_df) = 3
    /\ ~SkipRow(af_df[1])
    /\ long_targets[1] = 1
    /\ short_targets[1] = 0
    /\ ~TouchesTarget(SameLevelsOrder("Long", af_df[1]), af_df[2])

====
